---- MODULE Spec2Model ----
(***************************************************************************)
(* Model of hellomeme/models/hm_control.py: the five ControlNet variants   *)
(* (HMControlNet, HMControlNet2, HMV2ControlNet, HMV3ControlNet,           *)
(* HMV2ControlNet2), their constructors and their forward passes.          *)
(*                                                                         *)
(* Tensors are modelled by their shape and by what each element along the  *)
(* batch/frame/token axes is made of:                                      *)
(*   - a sample of a feature map carries the (b, f) position of the        *)
(*     condition frame it comes from and the driving tokens fused into it; *)
(*   - a driving token carries the signal it comes from, its numeric       *)
(*     value, and the operations applied to it in order, each with the     *)
(*     constant it used or the value it received.                          *)
(* Axes are 0-based as in Python; einops patterns are index arithmetic.    *)
(***************************************************************************)
EXTENDS Integers, Sequences, FiniteSets, TLC

(***************************************************************************)
(* Bounds of the enumeration.                                              *)
(***************************************************************************)
\* longest block_out_channels sequence a constructor is given
MaxLen == 4
\* largest batch size and frame count of a condition or a driving signal
MaxDim == 2
\* height and width of the condition frames
CondH == 9
CondW == 18
\* coefficient channels per frame of a driving signal, regions of face_parts
SigC == 2
\* forward calls made in a row with the same arguments
MaxRepeat == 2

(***************************************************************************)
(* Program constants.                                                      *)
(***************************************************************************)
InputChannels == 3
CrossAttentionDim == 320
ExpScale == 500
EmoScale == 20
AdapterIn == 1280
Up2Down0Out == 320
Up1Down1Out == 640

Range(s) == {s[i] : i \in DOMAIN s}

\* Python's None for an optional tensor argument
None == [some |-> FALSE, b |-> 0, f |-> 0, c |-> 0, seed |-> 0]

(***************************************************************************)
(* Input tensors.                                                          *)
(***************************************************************************)
\* a rank-5 condition (b, c, f, h, w): frame (b, f) is tagged <<b, f>>
Condition(B, F) ==
    [b |-> B, c |-> InputChannels, f |-> F, h |-> CondH, w |-> CondW,
     src |-> << >>,
     at |-> [p \in (0..B-1) \X (0..F-1) |-> [org |-> p, drv |-> << >>]]]

\* a rank-3 signal (b, f, c) in row-major order: element (b, f, c) has the
\* value seed + its flat index
SignalTensor(name, s) ==
    [b |-> s.b, f |-> s.f, c |-> s.c,
     at |-> [p \in (0..s.b-1) \X (0..s.f-1) \X (0..s.c-1) |->
               [sig |-> name,
                v |-> s.seed + (p[1] * s.f + p[2]) * s.c + p[3],
                ops |-> << >>]]]

(***************************************************************************)
(* einops.rearrange, one operator per pattern used in the source.          *)
(***************************************************************************)
\* variant of Flatten_bcfhw: "b c f h w -> (f b) c h w"
Flatten_bcfhw_FrameMajor(t) ==
    [n |-> t.b * t.f, c |-> t.c, h |-> t.h, w |-> t.w, src |-> t.src,
     at |-> [i \in 0..(t.b * t.f - 1) |-> t.at[<<i % t.b, i \div t.b>>]]]

\* "b c f h w -> (b f) c h w"
Flatten_bcfhw(t) ==
    [n |-> t.b * t.f, c |-> t.c, h |-> t.h, w |-> t.w, src |-> t.src,
     at |-> [i \in 0..(t.b * t.f - 1) |-> t.at[<<i \div t.f, i % t.f>>]]]

\* "(b f) c h w -> b c f h w" with f given; legal iff f divides the batch
CanUnflatten_bcfhw(t, f) == f > 0 /\ t.n % f = 0

Unflatten_bcfhw(t, f) ==
    [b |-> t.n \div f, c |-> t.c, f |-> f, h |-> t.h, w |-> t.w, src |-> t.src,
     at |-> [p \in (0..(t.n \div f)-1) \X (0..f-1) |-> t.at[p[1] * f + p[2]]]]

\* "b f c -> (b f c)"
Flatten_bfc(t) ==
    [n |-> t.b * t.f * t.c,
     at |-> [i \in 0..(t.b * t.f * t.c - 1) |->
               t.at[<<i \div (t.f * t.c), (i \div t.c) % t.f, i % t.c>>]]]

\* "(b f c) d -> b f c d" with b and f given; legal iff b*f divides the length
CanUnflatten_bfcd(t, b, f) == b * f > 0 /\ t.n % (b * f) = 0

Unflatten_bfcd(t, b, f) ==
    LET c == t.n \div (b * f) IN
    [b |-> b, f |-> f, c |-> c,
     at |-> [p \in (0..b-1) \X (0..f-1) \X (0..c-1) |->
               t.at[(p[1] * f + p[2]) * c + p[3]]]]

\* "b f c d -> (b f) c d"
Flatten_bfcd(t) ==
    [n |-> t.b * t.f, c |-> t.c,
     at |-> [p \in (0..(t.b * t.f - 1)) \X (0..t.c-1) |->
               t.at[<<p[1] \div t.f, p[1] % t.f, p[2]>>]]]

\* "(b f) c d -> b f c d" with f given; legal iff f divides the batch
CanUnflatten_bf_cd(t, f) == f > 0 /\ t.n % f = 0

Unflatten_bf_cd(t, f) ==
    [b |-> t.n \div f, f |-> f, c |-> t.c,
     at |-> [p \in (0..(t.n \div f)-1) \X (0..f-1) \X (0..t.c-1) |->
               t.at[<<p[1] * f + p[2], p[3]>>]]]

\* torch.cat([x, y], dim=2) of two (b, f, c, d) tensors
CanCat2(x, y) == x.b = y.b /\ x.f = y.f

Cat2(x, y) ==
    [b |-> x.b, f |-> x.f, c |-> x.c + y.c,
     at |-> [p \in (0..x.b-1) \X (0..x.f-1) \X (0..(x.c + y.c - 1)) |->
               IF p[3] < x.c THEN x.at[p]
               ELSE y.at[<<p[1], p[2], p[3] - x.c>>]]]

(***************************************************************************)
(* Element-wise steps on driving tokens.                                   *)
(***************************************************************************)
\* x * k
Scale(t, k) ==
    [t EXCEPT !.at = [p \in DOMAIN t.at |->
        [t.at[p] EXCEPT !.v = @ * k, !.ops = Append(@, [op |-> "mul", k |-> k])]]]

\* a sub-module (Timesteps or TimestepEmbedding) applied to every token; the
\* entry records the value the module received
Module(t, name) ==
    [t EXCEPT !.at = [p \in DOMAIN t.at |->
        [t.at[p] EXCEPT !.ops = Append(@, [op |-> name, k |-> t.at[p].v])]]]

(***************************************************************************)
(* Sub-modules and the steps of forward that every variant shares.         *)
(***************************************************************************)
\* nn.Conv2d(cin, cout): raises unless the input has cin channels
CanConv(conv, x) == x.c = conv.cin

Conv2d(conv, x) ==
    [x EXCEPT !.c = conv.cout, !.src = Append(@, [op |-> conv.name, k |-> conv.cout])]

\* F.interpolate(condition, size=(h // scale_factor, w // scale_factor))
Interpolate(self, x, h, w) ==
    [x EXCEPT !.h = h \div self.scale_factor, !.w = w \div self.scale_factor,
              !.src = Append(@, [op |-> "interpolate", k |-> self.scale_factor])]

\* bs, _, video_length, h, w = condition.shape; rearrange; interpolate; conv_in
ConvIn(self, condition) ==
    Conv2d(self.conv_in,
           Interpolate(self, Flatten_bcfhw(condition), condition.h, condition.w))

\* the driving tokens of sample i of a "(b f) c d" embedding, in order
TokensOf(drive, i) == [j \in 1..drive.c |-> drive.at[<<i, j - 1>>]]

\* SKCrossAttention (hm_blocks, outside this file): takes a feature map with
\* channel_in channels and a driving embedding of the same batch, returns a
\* feature map with channel_out channels in which sample i has attended to
\* the driving tokens of sample i.  The block's own change of the spatial
\* size is not visible from this file; h and w keep the size the chain was
\* entered with and src counts the blocks applied.
CanBlock(block, x, drive) == x.c = block.channel_in /\ drive.n = x.n

SKCrossAttention(block, idx, x, drive) ==
    [x EXCEPT !.c = block.channel_out,
              !.src = Append(@, [op |-> "blocks_down", k |-> idx]),
              !.at = [i \in DOMAIN x.at |->
                        [org |-> x.at[i].org, drv |-> TokensOf(drive, i)]]]

(***************************************************************************)
(* Results.  A call either returns its dictionary (ok) or raises (err);    *)
(* path and mods record the branch taken and the sub-modules invoked, in   *)
(* order, up to that point.                                                *)
(***************************************************************************)
EmptyDict == [keys |-> << >>, val |-> << >>]

\* ret_dict[key] = value (a Python dict keeps insertion order)
DictSet(d, key, value) ==
    IF key \in DOMAIN d.val
    THEN [d EXCEPT !.val = [k \in DOMAIN d.val |-> IF k = key THEN value ELSE d.val[k]]]
    ELSE [keys |-> Append(d.keys, key), val |-> (key :> value) @@ d.val]

Raise(e, path, mods) ==
    [ok |-> FALSE, err |-> e, ret |-> EmptyDict, path |-> path, mods |-> mods]

Return(ret, path, mods) ==
    [ok |-> TRUE, err |-> "", ret |-> ret, path |-> path, mods |-> mods]

(***************************************************************************)
(* The two driving-signal embeddings.                                      *)
(***************************************************************************)
\* emo_embedding * 20. -> "(b f c)" -> Timesteps -> "(b f c) d -> b f c d"
\* -> "(b f) c d" -> emo_proj.  ts is the Timesteps attribute the class uses.
\* variant of EmoMul: the expression constant in place of the emotion one
EmoMul_ExpScale(emo_embedding) ==
    Scale(SignalTensor("emo_embedding", emo_embedding), ExpScale)

EmoMul(emo_embedding) == Scale(SignalTensor("emo_embedding", emo_embedding), EmoScale)

EmotionEmbedding(ts, bs, video_length, emo_embedding) ==
    IF ~emo_embedding.some
    THEN [ok |-> FALSE, err |-> "TypeError", mods |-> << >>, emb |-> None]
    ELSE LET coeff == Flatten_bfc(EmoMul(emo_embedding))
             emb   == Module(coeff, ts)
         IN  IF ~CanUnflatten_bfcd(emb, bs, video_length)
             THEN [ok |-> FALSE, err |-> "EinopsError", mods |-> <<ts>>, emb |-> None]
             ELSE [ok |-> TRUE, err |-> "", mods |-> <<ts, "emo_proj">>,
                   emb |-> Module(Flatten_bfcd(Unflatten_bfcd(emb, bs, video_length)),
                                  "emo_proj")]

\* drive_coeff * 500. -> "(b f c)" -> exp_embedding -> "(b f c) d -> b f c d";
\* face_parts -> "(b f) c d" -> face_proj -> "(b f) c d -> b f c d";
\* cat(face, drive, dim=2) -> "(b f) c d" -> exp_proj
ExpMul(drive_coeff) == Scale(SignalTensor("drive_coeff", drive_coeff), ExpScale)

DualSignalEmbedding(bs, video_length, drive_coeff, face_parts) ==
    IF ~drive_coeff.some
    THEN [ok |-> FALSE, err |-> "TypeError", mods |-> << >>, emb |-> None]
    ELSE
    LET coeff == Flatten_bfc(ExpMul(drive_coeff))
        demb  == Module(coeff, "exp_embedding")
    IN
    IF ~CanUnflatten_bfcd(demb, bs, video_length)
    THEN [ok |-> FALSE, err |-> "EinopsError", mods |-> <<"exp_embedding">>, emb |-> None]
    ELSE IF ~face_parts.some
    THEN [ok |-> FALSE, err |-> "TypeError", mods |-> <<"exp_embedding">>, emb |-> None]
    ELSE
    LET drive == Unflatten_bfcd(demb, bs, video_length)
        fflat == Flatten_bfcd(SignalTensor("face_parts", face_parts))
        femb  == Module(fflat, "face_proj")
    IN
    IF ~CanUnflatten_bf_cd(femb, video_length)
    THEN [ok |-> FALSE, err |-> "EinopsError",
          mods |-> <<"exp_embedding", "face_proj">>, emb |-> None]
    ELSE
    LET face == Unflatten_bf_cd(femb, video_length) IN
    IF ~CanCat2(face, drive)
    THEN [ok |-> FALSE, err |-> "RuntimeError",
          mods |-> <<"exp_embedding", "face_proj">>, emb |-> None]
    ELSE [ok |-> TRUE, err |-> "",
          mods |-> <<"exp_embedding", "face_proj", "exp_proj">>,
          emb |-> Module(Flatten_bfcd(Cat2(face, drive)), "exp_proj")]

(***************************************************************************)
(* Constructors.  A network instance is a record of its attributes; the   *)
(* learned parameters are the sub-modules named in it.                     *)
(***************************************************************************)
\* variant of BlocksDown: the loop starts at 0 and wraps to the last width
BlocksDown_FromZero(block_out_channels) ==
    [i \in 1..Len(block_out_channels) |->
        [channel_in |-> block_out_channels[IF i = 1 THEN Len(block_out_channels)
                                           ELSE i - 1],
         channel_out |-> block_out_channels[i]]]

\* the loop "for i in range(1, len(block_out_channels))" that fills blocks_down
BlocksDown(block_out_channels) ==
    [i \in 1..(Len(block_out_channels) - 1) |->
        [channel_in |-> block_out_channels[i],
         channel_out |-> block_out_channels[i + 1]]]

\* nn.Conv2d(input_channels, block_out_channels[0], ...): block_out_channels[0]
\* raises IndexError on an empty sequence
CanIndex0(block_out_channels) == Len(block_out_channels) >= 1

Failed(cls, e) == [built |-> FALSE, cls |-> cls, err |-> e]

HMControlNet_init(block_out_channels) ==
    IF ~CanIndex0(block_out_channels) THEN Failed("HMControlNet", "IndexError")
    ELSE [built |-> TRUE, cls |-> "HMControlNet", err |-> "",
          scale_factor |-> 8, embedding_channels |-> 1280,
          cross_attention_dim |-> CrossAttentionDim,
          conv_in |-> [name |-> "conv_in", cin |-> InputChannels,
                       cout |-> block_out_channels[1]],
          subs |-> {"exp_embedding", "exp_proj", "face_proj"},
          blocks_down |-> BlocksDown(block_out_channels)]

HMControlNet2_init(block_out_channels) ==
    IF ~CanIndex0(block_out_channels) THEN Failed("HMControlNet2", "IndexError")
    ELSE [built |-> TRUE, cls |-> "HMControlNet2", err |-> "",
          scale_factor |-> 8, embedding_channels |-> 1280,
          cross_attention_dim |-> CrossAttentionDim,
          conv_in |-> [name |-> "conv_in", cin |-> InputChannels,
                       cout |-> block_out_channels[1]],
          subs |-> {"exp_embedding", "emo_proj"},
          blocks_down |-> BlocksDown(block_out_channels)]

HMV2ControlNet_init(block_out_channels) ==
    IF ~CanIndex0(block_out_channels) THEN Failed("HMV2ControlNet", "IndexError")
    ELSE [built |-> TRUE, cls |-> "HMV2ControlNet", err |-> "",
          scale_factor |-> 4, embedding_channels |-> 1280,
          cross_attention_dim |-> CrossAttentionDim,
          conv_in |-> [name |-> "conv_in", cin |-> InputChannels,
                       cout |-> block_out_channels[1]],
          subs |-> {"exp_embedding", "exp_proj", "face_proj"},
          blocks_down |-> BlocksDown(block_out_channels)]

HMV3ControlNet_init(block_out_channels) ==
    IF ~CanIndex0(block_out_channels) THEN Failed("HMV3ControlNet", "IndexError")
    ELSE [built |-> TRUE, cls |-> "HMV3ControlNet", err |-> "",
          scale_factor |-> 4, embedding_channels |-> 1280,
          cross_attention_dim |-> CrossAttentionDim,
          conv_in |-> [name |-> "conv_in", cin |-> InputChannels,
                       cout |-> block_out_channels[1]],
          conv_up2_down0 |-> [name |-> "conv_up2_down0", cin |-> AdapterIn,
                              cout |-> Up2Down0Out],
          conv_up1_down1 |-> [name |-> "conv_up1_down1", cin |-> AdapterIn,
                              cout |-> Up1Down1Out],
          subs |-> {"emo_embedding", "exp_embedding", "exp_proj", "face_proj",
                    "emo_proj"},
          blocks_down |-> BlocksDown(block_out_channels)]

HMV2ControlNet2_init(block_out_channels) ==
    IF ~CanIndex0(block_out_channels) THEN Failed("HMV2ControlNet2", "IndexError")
    ELSE [built |-> TRUE, cls |-> "HMV2ControlNet2", err |-> "",
          scale_factor |-> 4, embedding_channels |-> 1280,
          cross_attention_dim |-> CrossAttentionDim,
          conv_in |-> [name |-> "conv_in", cin |-> InputChannels,
                       cout |-> block_out_channels[1]],
          subs |-> {"exp_embedding", "emo_proj"},
          blocks_down |-> BlocksDown(block_out_channels)]

(***************************************************************************)
(* The fusion chain: "for idx, block in enumerate(self.blocks_down)".      *)
(* The loop state is [ok, err, embedding, ret, nid]; nid numbers the       *)
(* tensor objects the call creates for its dictionary, so two entries are  *)
(* the same object iff they have the same id.                              *)
(***************************************************************************)
\* rearrange(embedding, "(b f) c h w -> b c f h w", f=video_length), as the
\* new tensor object number id
Out(id, embedding, video_length) ==
    [id |-> id] @@ Unflatten_bcfhw(embedding, video_length)

StageFail(st, e) == [st EXCEPT !.ok = FALSE, !.err = e]

\* f'down_{idx}'
DownKey(idx) == "down_" \o ToString(idx)

\* f'down2_{idx}'
Down2Key(idx) == "down2_" \o ToString(idx)

\* variant of UpIdx: len(self.blocks_down) - idx, one too high
UpIdx_OneTooHigh(self, idx) == Len(self.blocks_down) - idx

\* len(self.blocks_down) - idx - 1
UpIdx(self, idx) == Len(self.blocks_down) - idx - 1

\* variant of UpV2Key: keyed by idx, ascending
UpV2Key_Ascending(self, idx) == "up_v2_" \o ToString(idx)

\* f'up_v2_{len(self.blocks_down) - idx - 1}'
UpV2Key(self, idx) == "up_v2_" \o ToString(UpIdx(self, idx))

\* f'up3_{up_idx}'
Up3Key(up_idx) == "up3_" \o ToString(up_idx)

\* f'up2_v2_{len(self.blocks_down)-idx-1}'
Up2V2Key(self, idx) == "up2_v2_" \o ToString(UpIdx(self, idx))

\* one iteration of the loop of the four single-prefix variants
StoreStage(self, st, idx, drive, video_length, key) ==
    LET block == self.blocks_down[idx + 1] IN
    IF ~CanBlock(block, st.embedding, drive) THEN StageFail(st, "RuntimeError")
    ELSE LET embedding == SKCrossAttention(block, idx, st.embedding, drive) IN
         IF ~CanUnflatten_bcfhw(embedding, video_length)
         THEN StageFail(st, "EinopsError")
         ELSE [st EXCEPT !.embedding = embedding,
                         !.ret = DictSet(@, key, Out(st.nid, embedding, video_length)),
                         !.nid = @ + 1]

\* ret_dict['down3_0'] = rearrange(self.conv_up2_down0(embedding), ...)
Adapt(conv, key, st, embedding, video_length) ==
    IF ~st.ok THEN st
    ELSE IF ~CanConv(conv, embedding) THEN StageFail(st, "RuntimeError")
    ELSE [st EXCEPT !.ret = DictSet(@, key, Out(st.nid, Conv2d(conv, embedding),
                                                video_length)),
                    !.nid = @ + 1]

\* variant of AliasUp0: the two keys get copies, new tensor objects with the
\* same contents
AliasUp0_Copies(st) ==
    IF ~st.ok THEN st
    ELSE LET up0 == st.ret.val["up3_0"]
             r2 == DictSet(st.ret, "down3_2", [up0 EXCEPT !.id = st.nid])
         IN  [st EXCEPT !.ret = DictSet(r2, "down3_3", [up0 EXCEPT !.id = st.nid + 1]),
                        !.nid = @ + 2]

\* ret_dict['down3_2'] = ret_dict['up3_0']; ret_dict['down3_3'] = ret_dict['up3_0']
AliasUp0(st) ==
    IF ~st.ok THEN st
    ELSE LET r2 == DictSet(st.ret, "down3_2", st.ret.val["up3_0"]) IN
         [st EXCEPT !.ret = DictSet(r2, "down3_3", r2.val["up3_0"])]

\* variant of IsUp2: the adapter reads the stage above
IsUp2_StageAbove(up_idx) == up_idx = 3

\* "if up_idx == 2:", "if up_idx == 1:", "if up_idx == 0:"
IsUp2(up_idx) == up_idx = 2
IsUp1(up_idx) == up_idx = 1
IsUp0(up_idx) == up_idx = 0

\* one iteration of the loop of HMV3ControlNet.forward
HMV3ControlNet_stage(self, st, idx, drive, video_length) ==
    LET block == self.blocks_down[idx + 1] IN
    IF ~CanBlock(block, st.embedding, drive) THEN StageFail(st, "RuntimeError")
    ELSE
    LET embedding == SKCrossAttention(block, idx, st.embedding, drive)
        up_idx == UpIdx(self, idx)
    IN
    IF ~CanUnflatten_bcfhw(embedding, video_length) THEN StageFail(st, "EinopsError")
    ELSE
    LET s0 == [st EXCEPT !.embedding = embedding,
                         !.ret = DictSet(@, Up3Key(up_idx),
                                         Out(st.nid, embedding, video_length)),
                         !.nid = @ + 1]
        s1 == IF IsUp2(up_idx)
              THEN Adapt(self.conv_up2_down0, "down3_0", s0, embedding, video_length)
              ELSE s0
        s2 == IF IsUp1(up_idx)
              THEN Adapt(self.conv_up1_down1, "down3_1", s1, embedding, video_length)
              ELSE s1
    IN  IF IsUp0(up_idx) THEN AliasUp0(s2) ELSE s2

Stage(self, st, idx, drive, video_length) ==
    CASE self.cls = "HMControlNet" ->
            StoreStage(self, st, idx, drive, video_length, DownKey(idx))
      [] self.cls = "HMControlNet2" ->
            StoreStage(self, st, idx, drive, video_length, Down2Key(idx))
      [] self.cls = "HMV2ControlNet" ->
            StoreStage(self, st, idx, drive, video_length, UpV2Key(self, idx))
      [] self.cls = "HMV3ControlNet" ->
            HMV3ControlNet_stage(self, st, idx, drive, video_length)
      [] self.cls = "HMV2ControlNet2" ->
            StoreStage(self, st, idx, drive, video_length, Up2V2Key(self, idx))

RECURSIVE Chain(_, _, _, _, _)
Chain(self, st, idx, drive, video_length) ==
    IF ~st.ok \/ idx >= Len(self.blocks_down) THEN st
    ELSE Chain(self, Stage(self, st, idx, drive, video_length), idx + 1,
               drive, video_length)

\* ret_dict = {}; the loop; return ret_dict
RunChain(self, condition, e, path) ==
    LET mods == <<"conv_in">> \o e.mods IN
    IF ~e.ok THEN Raise(e.err, path, mods)
    ELSE LET st == Chain(self,
                         [ok |-> TRUE, err |-> "", embedding |-> ConvIn(self, condition),
                          ret |-> EmptyDict, nid |-> 1],
                         0, e.emb, condition.f)
         IN  IF st.ok THEN Return(st.ret, path, mods) ELSE Raise(st.err, path, mods)

(***************************************************************************)
(* forward, one operator per class.  Each returns the instance after the   *)
(* call (forward assigns no attribute of self) and the call's outcome.     *)
(***************************************************************************)
HMControlNet_forward(self, condition, drive_coeff, face_parts) ==
    [self |-> self,
     out  |-> RunChain(self, condition,
                       DualSignalEmbedding(condition.b, condition.f,
                                           drive_coeff, face_parts),
                       "dual")]

HMControlNet2_forward(self, condition, emo_embedding) ==
    [self |-> self,
     out  |-> RunChain(self, condition,
                       EmotionEmbedding("exp_embedding", condition.b, condition.f,
                                        emo_embedding),
                       "emotion")]

HMV2ControlNet_forward(self, condition, drive_coeff, face_parts) ==
    [self |-> self,
     out  |-> RunChain(self, condition,
                       DualSignalEmbedding(condition.b, condition.f,
                                           drive_coeff, face_parts),
                       "dual")]

\* variant of EmotionPath: "and" in place of "or"
EmotionPath_And(drive_coeff, face_parts) == ~drive_coeff.some /\ ~face_parts.some

\* "if drive_coeff is None or face_parts is None:" selects the emotion path
EmotionPath(drive_coeff, face_parts) == ~drive_coeff.some \/ ~face_parts.some

\* variant of HMV3ControlNet_drive: the branch tests emo_embedding first
HMV3ControlNet_drive_EmoFirst(bs, video_length, drive_coeff, face_parts, emo_embedding) ==
    IF emo_embedding.some \/ EmotionPath(drive_coeff, face_parts)
    THEN [path |-> "emotion",
          e |-> EmotionEmbedding("emo_embedding", bs, video_length, emo_embedding)]
    ELSE [path |-> "dual",
          e |-> DualSignalEmbedding(bs, video_length, drive_coeff, face_parts)]

HMV3ControlNet_drive(bs, video_length, drive_coeff, face_parts, emo_embedding) ==
    IF EmotionPath(drive_coeff, face_parts)
    THEN [path |-> "emotion",
          e |-> EmotionEmbedding("emo_embedding", bs, video_length, emo_embedding)]
    ELSE [path |-> "dual",
          e |-> DualSignalEmbedding(bs, video_length, drive_coeff, face_parts)]

\* variant of HMV3ControlNet_forward: the call consumes the first block
HMV3ControlNet_forward_PopsBlock(self, condition, drive_coeff, face_parts, emo_embedding) ==
    LET d == HMV3ControlNet_drive(condition.b, condition.f,
                                  drive_coeff, face_parts, emo_embedding)
    IN  [self |-> [self EXCEPT !.blocks_down = SubSeq(@, 2, Len(@))],
         out |-> RunChain(self, condition, d.e, d.path)]

HMV3ControlNet_forward(self, condition, drive_coeff, face_parts, emo_embedding) ==
    LET d == HMV3ControlNet_drive(condition.b, condition.f,
                                  drive_coeff, face_parts, emo_embedding)
    IN  [self |-> self, out |-> RunChain(self, condition, d.e, d.path)]

HMV2ControlNet2_forward(self, condition, emo_embedding) ==
    [self |-> self,
     out  |-> RunChain(self, condition,
                       EmotionEmbedding("exp_embedding", condition.b, condition.f,
                                        emo_embedding),
                       "emotion")]

(***************************************************************************)
(* The inputs enumerated.                                                  *)
(***************************************************************************)
\* the default block_out_channels of each class
DefaultSchedule(cls) ==
    IF cls \in {"HMControlNet", "HMControlNet2"}
    THEN <<128, 320, 640, 1280>>
    ELSE <<128, 640, 1280, 1280, 1280>>

\* channel widths of the chain
BaseWidth == 128
Widths == {640, 1280}

\* block_out_channels: empty, or 128 followed by up to MaxLen-1 widths, or
\* the default of the class
Schedules(cls) ==
    {<< >>, DefaultSchedule(cls)} \cup
    {<<BaseWidth>> \o s : s \in UNION {[1..k -> Widths] : k \in 0..(MaxLen - 1)}}

Dims == 1..MaxDim

Signal(b, f, seed) == [some |-> TRUE, b |-> b, f |-> f, c |-> SigC, seed |-> seed]

\* every signal of the bounded shapes, with two different contents
AllSignals == {None} \cup {Signal(b, f, seed) : b \in Dims, f \in Dims, seed \in {1, 2}}

\* the schedule whose instances are tried with signals of every bounded shape
ProbeSchedule == <<BaseWidth, 1280>>

\* the optional signals tried on an instance: absent or shaped like the
\* condition; an instance of the probe schedule also gets every other
\* bounded shape
SignalsFor(blocks, B, F) ==
    {None} \cup
    (IF blocks = BlocksDown(ProbeSchedule)
     THEN {Signal(b, f, 1) : b \in Dims, f \in Dims}
     ELSE {Signal(B, F, 1)})

(***************************************************************************)
(* State.                                                                  *)
(*   cfg   the arguments of the latest constructor call                    *)
(*   net   the instance it returned, or the exception it raised            *)
(*   call  the latest forward call on net: its arguments and its outcome   *)
(***************************************************************************)
VARIABLES cfg, net, call
vars == <<cfg, net, call>>

NoCfg == [cls |-> "", block_out_channels |-> << >>]
NoNet == [built |-> FALSE, cls |-> "", err |-> ""]
NoCall == [made |-> FALSE, n |-> 0]

Init == cfg = NoCfg /\ net = NoNet /\ call = NoCall

Construct(cls, block_out_channels, instance) ==
    /\ cfg = NoCfg
    /\ cfg' = [cls |-> cls, block_out_channels |-> block_out_channels]
    /\ net' = instance
    /\ call' = NoCall

New_HMControlNet ==
    \E s \in Schedules("HMControlNet") : Construct("HMControlNet", s, HMControlNet_init(s))

New_HMControlNet2 ==
    \E s \in Schedules("HMControlNet2") : Construct("HMControlNet2", s, HMControlNet2_init(s))

New_HMV2ControlNet ==
    \E s \in Schedules("HMV2ControlNet") : Construct("HMV2ControlNet", s, HMV2ControlNet_init(s))

New_HMV3ControlNet ==
    \E s \in Schedules("HMV3ControlNet") : Construct("HMV3ControlNet", s, HMV3ControlNet_init(s))

New_HMV2ControlNet2 ==
    \E s \in Schedules("HMV2ControlNet2") : Construct("HMV2ControlNet2", s, HMV2ControlNet2_init(s))

Args(B, F, dc, fp, emo) ==
    [B |-> B, F |-> F, drive_coeff |-> dc, face_parts |-> fp, emo_embedding |-> emo]

\* the argument lists tried on an instance, by the signature of its forward
DualArgs(self) ==
    UNION {{Args(B, F, dc, fp, None) :
                dc \in SignalsFor(self.blocks_down, B, F),
                fp \in SignalsFor(self.blocks_down, B, F)} :
           B \in Dims, F \in Dims}

EmoArgs(self) ==
    UNION {{Args(B, F, None, None, emo) :
                emo \in SignalsFor(self.blocks_down, B, F)} :
           B \in Dims, F \in Dims}

\* HMV3ControlNet: the signals of one path range over SignalsFor while those
\* of the other path are absent or shaped like the condition
V3Args(self) ==
    UNION {{Args(B, F, dc, fp, emo) :
                dc \in SignalsFor(self.blocks_down, B, F),
                fp \in SignalsFor(self.blocks_down, B, F),
                emo \in {None, Signal(B, F, 1)}}
           \cup
           {Args(B, F, dc, fp, emo) :
                dc \in {None, Signal(B, F, 1)},
                fp \in {None, Signal(B, F, 1)},
                emo \in SignalsFor(self.blocks_down, B, F)} :
           B \in Dims, F \in Dims}

\* a call repeats the arguments of the one before it until the caller drops
\* the result; after that any argument list is tried
Tried(all) == IF call.made THEN {call.args} ELSE all

\* a forward call on the live instance: r is what forward gives back; n counts
\* the calls made in a row with these arguments
Called(a, r) ==
    /\ call.n < MaxRepeat
    /\ call' = [made |-> TRUE, n |-> call.n + 1, args |-> a, out |-> r.out]
    /\ net' = r.self
    /\ UNCHANGED cfg

Call_HMControlNet ==
    /\ net.built /\ net.cls = "HMControlNet"
    /\ \E a \in Tried(DualArgs(net)) :
         Called(a, HMControlNet_forward(net, Condition(a.B, a.F),
                                        a.drive_coeff, a.face_parts))

Call_HMControlNet2 ==
    /\ net.built /\ net.cls = "HMControlNet2"
    /\ \E a \in Tried(EmoArgs(net)) :
         Called(a, HMControlNet2_forward(net, Condition(a.B, a.F), a.emo_embedding))

Call_HMV2ControlNet ==
    /\ net.built /\ net.cls = "HMV2ControlNet"
    /\ \E a \in Tried(DualArgs(net)) :
         Called(a, HMV2ControlNet_forward(net, Condition(a.B, a.F),
                                          a.drive_coeff, a.face_parts))

Call_HMV3ControlNet ==
    /\ net.built /\ net.cls = "HMV3ControlNet"
    /\ \E a \in Tried(V3Args(net)) :
         Called(a, HMV3ControlNet_forward(net, Condition(a.B, a.F), a.drive_coeff,
                                          a.face_parts, a.emo_embedding))

Call_HMV2ControlNet2 ==
    /\ net.built /\ net.cls = "HMV2ControlNet2"
    /\ \E a \in Tried(EmoArgs(net)) :
         Called(a, HMV2ControlNet2_forward(net, Condition(a.B, a.F), a.emo_embedding))

\* the caller drops the returned dictionary
Drop ==
    /\ call.made
    /\ call' = NoCall
    /\ UNCHANGED <<cfg, net>>

\* the caller drops the instance (or the failed construction)
Release ==
    /\ cfg # NoCfg
    /\ cfg' = NoCfg /\ net' = NoNet /\ call' = NoCall

Forward ==
    \/ Call_HMControlNet
    \/ Call_HMControlNet2
    \/ Call_HMV2ControlNet
    \/ Call_HMV3ControlNet
    \/ Call_HMV2ControlNet2

Next ==
    \/ New_HMControlNet
    \/ New_HMControlNet2
    \/ New_HMV2ControlNet
    \/ New_HMV3ControlNet
    \/ New_HMV2ControlNet2
    \/ Call_HMControlNet
    \/ Call_HMControlNet2
    \/ Call_HMV2ControlNet
    \/ Call_HMV3ControlNet
    \/ Call_HMV2ControlNet2
    \/ Drop
    \/ Release

Spec == Init /\ [][Next]_vars

(***************************************************************************)
(* Vocabulary of the properties.                                           *)
(***************************************************************************)
Returned == call.made /\ call.out.ok
Raised == call.made /\ ~call.out.ok
Ret == call.out.ret.val
RetKeys == DOMAIN call.out.ret.val

\* N, the number of fusion blocks, and len(block_out_channels)
NBlocks == Len(net.blocks_down)
LenSchedule == Len(cfg.block_out_channels)

Numbered(prefix, n) == {prefix \o ToString(i) : i \in 0..(n - 1)}

\* the key prefix of a single-prefix class
PrefixOf(cls) ==
    CASE cls = "HMControlNet" -> "down_"
      [] cls = "HMControlNet2" -> "down2_"
      [] cls = "HMV2ControlNet" -> "up_v2_"
      [] cls = "HMV3ControlNet" -> "up3_"
      [] cls = "HMV2ControlNet2" -> "up2_v2_"

Ascending == {"HMControlNet", "HMControlNet2"}

\* the down3_ keys HMV3ControlNet writes for a chain of n blocks
Down3Keys(n) ==
    (IF n >= 1 THEN {"down3_2", "down3_3"} ELSE {}) \cup
    (IF n >= 2 THEN {"down3_1"} ELSE {}) \cup
    (IF n >= 3 THEN {"down3_0"} ELSE {})

(***************************************************************************)
(* C1 (as stated)  Whenever forward returns, the keys of the dictionary    *)
(* are, for each prefix of the class, exactly prefix0 .. prefix(N-1) with  *)
(* N = len(block_out_channels) - 1; HMV3ControlNet has the two prefixes    *)
(* up3_ and down3_.                                                        *)
(***************************************************************************)
C1_KeysMatchLenForEveryPrefix ==
    Returned =>
        RetKeys = Numbered(PrefixOf(net.cls), LenSchedule - 1) \cup
                  (IF net.cls = "HMV3ControlNet"
                   THEN Numbered("down3_", LenSchedule - 1) ELSE {})

(***************************************************************************)
(* C1 (amended)  Whenever forward returns, the keys with the class's main  *)
(* prefix (down_, down2_, up_v2_, up3_, up2_v2_) are exactly prefix0 ..    *)
(* prefix(N-1), N = len(block_out_channels) - 1, each written once; the    *)
(* four single-prefix classes have no other key, and HMV3ControlNet adds   *)
(* down3_2 and down3_3 when N >= 1, down3_1 when N >= 2 and down3_0 when   *)
(* N >= 3, so its down3_ keys number N only for N = 4.                     *)
(***************************************************************************)
C1_KeysPerVariant ==
    Returned =>
        /\ NBlocks = LenSchedule - 1
        /\ RetKeys = Numbered(PrefixOf(net.cls), LenSchedule - 1) \cup
                     (IF net.cls = "HMV3ControlNet"
                      THEN Down3Keys(LenSchedule - 1) ELSE {})
        /\ Len(call.out.ret.keys) = Cardinality(RetKeys)
        /\ Range(call.out.ret.keys) = RetKeys
        /\ Cardinality(RetKeys \cap Numbered(PrefixOf(net.cls), LenSchedule - 1))
             = LenSchedule - 1

\* HMV3ControlNet returned from a chain of three blocks: down3_ has four keys
C1_Witness ==
    /\ Returned /\ net.cls = "HMV3ControlNet" /\ LenSchedule = 4
    /\ {"down3_0", "down3_1", "down3_2", "down3_3"} \subseteq RetKeys

(***************************************************************************)
(* C2  In HMV3ControlNet.forward exactly one driving-signal path is taken  *)
(* per call: the dual-signal path iff drive_coeff and face_parts are both  *)
(* supplied, the emotion path in every other case.  The dual path invokes  *)
(* only exp_embedding, face_proj and exp_proj, the emotion path only       *)
(* emo_embedding and emo_proj, and the tokens fused into the outputs have  *)
(* passed through the sub-modules of the taken path alone.                 *)
(***************************************************************************)
DualModules == {"exp_embedding", "face_proj", "exp_proj"}
EmotionModules == {"emo_embedding", "emo_proj"}

BothSupplied == call.args.drive_coeff.some /\ call.args.face_parts.some

\* the sub-modules recorded in the driving tokens of the returned tensors
FusedModules ==
    UNION {UNION {UNION {{t.ops[j].op : j \in DOMAIN t.ops} \ {"mul"}
                         : t \in Range(Ret[k].at[p].drv)}
                  : p \in DOMAIN Ret[k].at}
           : k \in RetKeys}

C2_ExactlyOnePath ==
    (call.made /\ net.cls = "HMV3ControlNet") =>
        /\ call.out.path \in {"dual", "emotion"}
        /\ call.out.path = "dual" <=> BothSupplied
        /\ call.out.path = "emotion" <=> ~BothSupplied
        /\ call.out.path = "dual" =>
              /\ Range(call.out.mods) \subseteq {"conv_in"} \cup DualModules
              /\ call.out.ok => DualModules \subseteq Range(call.out.mods)
              /\ call.out.ok => FusedModules \subseteq DualModules
        /\ call.out.path = "emotion" =>
              /\ Range(call.out.mods) \subseteq {"conv_in"} \cup EmotionModules
              /\ call.out.ok => EmotionModules \subseteq Range(call.out.mods)
              /\ call.out.ok => FusedModules \subseteq EmotionModules
        /\ DualModules \cap EmotionModules = {}
        /\ DualModules \cup EmotionModules \subseteq net.subs

\* a returned call with drive_coeff and emo_embedding supplied but face_parts
\* absent: the emotion path ran although an expression signal was given
C2_Witness ==
    /\ Returned /\ net.cls = "HMV3ControlNet" /\ NBlocks >= 1
    /\ call.args.drive_coeff.some /\ ~call.args.face_parts.some
    /\ call.out.path = "emotion" /\ FusedModules = EmotionModules

(***************************************************************************)
(* C3  Whenever HMV3ControlNet.forward returns, the values under "down3_2" *)
(* and "down3_3" are the same tensor object as the value under "up3_0":    *)
(* the three keys are written together and carry the same object id.       *)
(***************************************************************************)
C3_Down3AliasesUp0 ==
    (Returned /\ net.cls = "HMV3ControlNet") =>
        /\ ("up3_0" \in RetKeys) <=> ("down3_2" \in RetKeys)
        /\ ("up3_0" \in RetKeys) <=> ("down3_3" \in RetKeys)
        /\ "up3_0" \in RetKeys =>
              /\ Ret["down3_2"].id = Ret["up3_0"].id
              /\ Ret["down3_3"].id = Ret["up3_0"].id
              /\ Ret["down3_2"] = Ret["up3_0"]
              /\ Ret["down3_3"] = Ret["up3_0"]
              /\ \A k \in RetKeys \ {"up3_0", "down3_2", "down3_3"} :
                    Ret[k].id # Ret["up3_0"].id

\* a returned call of the default four-block chain, where all of up3_0..3 and
\* down3_0..3 are present
C3_Witness ==
    /\ Returned /\ net.cls = "HMV3ControlNet" /\ NBlocks = 4
    /\ Ret["down3_2"].id = Ret["up3_0"].id
    /\ Ret["down3_0"].id # Ret["up3_2"].id

(***************************************************************************)
(* C4  Whenever HMV3ControlNet.forward returns from a chain of N blocks:   *)
(* "down3_0" is present iff N >= 3 and is conv_up2_down0 applied to the    *)
(* feature map emitted as "up3_2"; "down3_1" is present iff N >= 2 and is  *)
(* conv_up1_down1 applied to the feature map emitted as "up3_1".           *)
(***************************************************************************)
\* y is conv applied to the feature map x and to nothing else
ProjectionOf(y, x, conv) ==
    /\ y.src = Append(x.src, [op |-> conv.name, k |-> conv.cout])
    /\ y.c = conv.cout /\ x.c = conv.cin
    /\ y.at = x.at /\ y.b = x.b /\ y.f = x.f /\ y.h = x.h /\ y.w = x.w

C4_AdaptersReadTheirStage ==
    (Returned /\ net.cls = "HMV3ControlNet") =>
        /\ ("down3_0" \in RetKeys) <=> (NBlocks >= 3)
        /\ ("down3_1" \in RetKeys) <=> (NBlocks >= 2)
        /\ "down3_0" \in RetKeys =>
              /\ "up3_2" \in RetKeys
              /\ ProjectionOf(Ret["down3_0"], Ret["up3_2"], net.conv_up2_down0)
        /\ "down3_1" \in RetKeys =>
              /\ "up3_1" \in RetKeys
              /\ ProjectionOf(Ret["down3_1"], Ret["up3_1"], net.conv_up1_down1)

\* a returned call of a five-stage schedule whose chain has more stages than
\* the two adapters read
C4_Witness ==
    /\ Returned /\ net.cls = "HMV3ControlNet" /\ NBlocks = 4
    /\ Ret["down3_0"].c = Up2Down0Out /\ Ret["down3_1"].c = Up1Down1Out
    /\ Ret["up3_3"].c # Ret["up3_2"].c

(***************************************************************************)
(* C5  Whenever forward returns from a chain of N blocks, the output of    *)
(* the i-th block applied (i = 0..N-1) is stored under index i in          *)
(* HMControlNet and HMControlNet2 and under index N-1-i in HMV2ControlNet, *)
(* HMV3ControlNet (up3_) and HMV2ControlNet2; it is the i-th key of that   *)
(* prefix written, and every index 0..N-1 is used exactly once.            *)
(***************************************************************************)
\* the index under which the class stores the output of the i-th block
IndexOfStage(cls, n, i) == IF cls \in Ascending THEN i ELSE n - 1 - i

\* the blocks a feature map has passed, in order
BlocksPassed(t) == SelectSeq(t.src, LAMBDA e : e.op = "blocks_down")

\* the keys of the main prefix in the order they were written
MainKeysWritten ==
    SelectSeq(call.out.ret.keys,
              LAMBDA k : k \in Numbered(PrefixOf(net.cls), NBlocks))

C5_StageIndexOrder ==
    Returned =>
        /\ Len(MainKeysWritten) = NBlocks
        /\ \A i \in 0..(NBlocks - 1) :
              LET key == PrefixOf(net.cls) \o ToString(IndexOfStage(net.cls, NBlocks, i))
              IN  /\ key \in RetKeys
                  /\ MainKeysWritten[i + 1] = key
                  /\ BlocksPassed(Ret[key]) =
                        [j \in 1..(i + 1) |-> [op |-> "blocks_down", k |-> j - 1]]
                  /\ Ret[key].c = net.blocks_down[i + 1].channel_out

\* a descending class returned from a chain of at least three blocks: the
\* first key written is N-1 and the last is 0
C5_Witness ==
    /\ Returned /\ net.cls = "HMV2ControlNet" /\ NBlocks >= 3
    /\ call.out.ret.keys[1] = "up_v2_" \o ToString(NBlocks - 1)
    /\ call.out.ret.keys[NBlocks] = "up_v2_0"

(***************************************************************************)
(* C6 (as stated)  Whenever forward returns for a condition of shape       *)
(* (B, C, F, H, W), every tensor of the dictionary has batch size B and    *)
(* frame count F, holds at position (b, f) the data of condition frame     *)
(* (b, f), and has the channel width block_out_channels[i+1] of the chain  *)
(* position i that produced it.                                            *)
(***************************************************************************)
\* the chain position that produced a tensor: the last block it has passed
ProducedAt(t) == BlocksPassed(t)[Len(BlocksPassed(t))].k

FrameAxisExact(t) ==
    /\ t.b = call.args.B /\ t.f = call.args.F
    /\ DOMAIN t.at = (0..(call.args.B - 1)) \X (0..(call.args.F - 1))
    /\ \A p \in DOMAIN t.at : t.at[p].org = p

C6_ShapeWithStageWidth ==
    Returned =>
        \A k \in RetKeys :
            /\ FrameAxisExact(Ret[k])
            /\ Ret[k].c = cfg.block_out_channels[ProducedAt(Ret[k]) + 2]

(***************************************************************************)
(* C6 (amended)  As stated, except that the two adapter outputs of         *)
(* HMV3ControlNet do not have the width of the stage they read: "down3_0"  *)
(* has the 320 channels of conv_up2_down0 and "down3_1" the 640 channels   *)
(* of conv_up1_down1.  Every other tensor has block_out_channels[i+1].     *)
(***************************************************************************)
AdapterKeys == {"down3_0", "down3_1"}

C6_ShapeAndFrameRoundTrip ==
    Returned =>
        \A k \in RetKeys :
            /\ FrameAxisExact(Ret[k])
            /\ k \notin AdapterKeys =>
                  Ret[k].c = cfg.block_out_channels[ProducedAt(Ret[k]) + 2]
            /\ k = "down3_0" => Ret[k].c = Up2Down0Out
            /\ k = "down3_1" => Ret[k].c = Up1Down1Out

\* a returned call with two batches of two frames and a chain of two blocks
\* of different widths
C6_Witness ==
    /\ Returned /\ call.args.B = 2 /\ call.args.F = 2 /\ NBlocks = 2
    /\ net.cls = "HMControlNet"
    /\ Ret["down_0"].c # Ret["down_1"].c
    /\ Ret["down_1"].at[<<1, 0>>].org = <<1, 0>>
    /\ Ret["down_1"].at[<<0, 1>>].org = <<0, 1>>

(***************************************************************************)
(* C7  In every class and path the driving signal is multiplied by its     *)
(* constant before the sinusoidal embedding and never after: every token   *)
(* of drive_coeff reaches its Timesteps module as 500 times a coefficient  *)
(* of the input, every token of emo_embedding as 20 times one, the         *)
(* multiplication is the first and only one, and face_parts tokens are     *)
(* neither multiplied nor embedded.                                        *)
(***************************************************************************)
Timesteps == {"exp_embedding", "emo_embedding"}

\* the coefficients of a supplied signal
Coefficients(s) == {s.seed + i : i \in 0..(s.b * s.f * s.c - 1)}

ScaledThenEmbedded(t, k, s) ==
    /\ Len(t.ops) = 3
    /\ t.ops[1] = [op |-> "mul", k |-> k]
    /\ t.ops[2].op \in Timesteps
    /\ t.ops[2].k \in {k * x : x \in Coefficients(s)}
    /\ t.ops[3].op \notin Timesteps \cup {"mul"}

FusedTokens ==
    UNION {UNION {Range(Ret[k].at[p].drv) : p \in DOMAIN Ret[k].at} : k \in RetKeys}

C7_ScaleBeforeEmbedding ==
    Returned =>
        \A t \in FusedTokens :
            /\ t.sig = "drive_coeff" =>
                  ScaledThenEmbedded(t, ExpScale, call.args.drive_coeff)
            /\ t.sig = "emo_embedding" =>
                  ScaledThenEmbedded(t, EmoScale, call.args.emo_embedding)
            /\ t.sig = "face_parts" =>
                  \A j \in DOMAIN t.ops : t.ops[j].op \notin Timesteps \cup {"mul"}

\* a returned emotion-path call of HMV3ControlNet whose first coefficient 1
\* reached emo_embedding as 20
C7_Witness ==
    /\ Returned /\ net.cls = "HMV3ControlNet" /\ NBlocks >= 1
    /\ call.out.path = "emotion"
    /\ \E t \in FusedTokens : t.ops[2] = [op |-> "emo_embedding", k |-> 20]

(***************************************************************************)
(* C8 (as stated)  A block_out_channels of length 0 or 1 ends in an error: *)
(* the constructor raises, or every forward call raises and returns no     *)
(* dictionary.                                                             *)
(***************************************************************************)
Constructed == cfg # NoCfg

C8_TooShortAlwaysRaises ==
    (Constructed /\ LenSchedule <= 1) =>
        \/ ~net.built /\ net.err # ""
        \/ call.made => ~call.out.ok

(***************************************************************************)
(* C8 (amended)  An empty block_out_channels makes the constructor raise   *)
(* (IndexError on block_out_channels[0]), so there is no instance to call. *)
(* A block_out_channels of length 1 is accepted: the instance has no       *)
(* fusion block, and a forward call on it that does not raise on its       *)
(* driving signals returns the empty dictionary.                           *)
(***************************************************************************)
C8_TooShortSchedules ==
    Constructed =>
        /\ LenSchedule = 0 =>
              /\ ~net.built /\ net.err = "IndexError"
              /\ ~call.made
        /\ LenSchedule >= 1 => net.built /\ net.err = ""
        /\ LenSchedule = 1 =>
              /\ net.blocks_down = << >>
              /\ Returned => call.out.ret = EmptyDict
        /\ (Returned /\ call.out.ret = EmptyDict) => LenSchedule = 1

\* a call on an instance built from a one-element schedule returned
C8_Witness ==
    /\ Constructed /\ LenSchedule = 1 /\ Returned
    /\ RetKeys = {}

OtherSignals == {s \in AllSignals : s.seed # 1}

Again(dc, fp, emo) ==
    HMV3ControlNet_forward(net, Condition(call.args.B, call.args.F), dc, fp, emo).out

C10_UntakenInputsIgnored ==
    (call.made /\ net.cls = "HMV3ControlNet") =>
        LET a == call.args IN
        /\ (a.drive_coeff.some /\ a.face_parts.some) =>
              \A alt \in OtherSignals :
                  Again(a.drive_coeff, a.face_parts, alt) = call.out
        /\ (a.drive_coeff.some /\ ~a.face_parts.some /\ a.emo_embedding.some) =>
              \A alt \in OtherSignals \ {None} :
                  Again(alt, a.face_parts, a.emo_embedding) = call.out
        /\ (~a.drive_coeff.some /\ a.face_parts.some /\ a.emo_embedding.some) =>
              \A alt \in OtherSignals \ {None} :
                  Again(a.drive_coeff, alt, a.emo_embedding) = call.out
        /\ (~(a.drive_coeff.some /\ a.face_parts.some) /\ ~a.emo_embedding.some) =>
              ~call.out.ok /\ call.out.ret = EmptyDict

\* a returned dual-path call that was also given an emo_embedding
C10_Witness ==
    /\ Returned /\ net.cls = "HMV3ControlNet" /\ NBlocks >= 1
    /\ call.args.drive_coeff.some /\ call.args.face_parts.some
    /\ call.args.emo_embedding.some
    /\ call.out.path = "dual"

====
